---- MODULE Spec2Model ----
(***************************************************************************)
(* Model of the question retriever: the Question Store, the Sent-Record    *)
(* Store (collection retrievedQuestions), the service functions of         *)
(* client/src/services/questionService.ts, the handlers of App.tsx, the    *)
(* callable getQuestionSummary with the reply parser, the week functions   *)
(* of functions/src/utils.ts and the weekly summary of WeeklySummary.tsx.  *)
(* Every store call (getDocs, addDoc, deleteDoc) is one atomic step of the *)
(* store; a service function is a sequence of such steps, suspended at     *)
(* each await, so calls of different callers interleave between steps.     *)
(***************************************************************************)
EXTENDS Integers, Sequences, FiniteSets, TLC

\* ------------------------------------------------------------------ bounds
NumQuestions == 3
MaxDocIds == 2

NULL == 0

Procs == {1, 2}
Questions == 1..NumQuestions
DocIds == 1..MaxDocIds
Difficulties == {"Easy", "Medium", "Hard"}

\* --------------------------------------------------------- Question Store
\* The imported fixture: questions 1, 2, 4, ... are Easy, every third one is
\* Medium, and no question is Hard (an empty difficulty set).
QuestionDoc(i) ==
    [id |-> i,
     frontendQuestionId |-> 100 + i,
     title |-> <<"title", i>>,
     titleSlug |-> <<"slug", i>>,
     difficulty |-> IF i % 3 = 0 THEN "Medium" ELSE "Easy",
     topicTags |-> IF i % 2 = 1
                   THEN <<[name |-> "Array", slug |-> "array"],
                          [name |-> "Hash Table", slug |-> "hash-table"]>>
                   ELSE <<>>]

questionsCol == {QuestionDoc(i) : i \in Questions}

\* query(questionsCol, where('difficulty', '==', difficulty))
questionsByDifficulty(difficulty) ==
    {qu \in questionsCol : qu.difficulty = difficulty}

\* The reply of the callable getQuestionSummary for a question.
SummaryOf(question) ==
    [solution |-> <<"solution", question.id>>,
     timeComplexity |-> "O(n)",
     spaceComplexity |-> "O(1)"]

VARIABLES
    retrievedQuestionsCol,  \* the Sent-Record Store: a set of documents
    nextDocId,              \* the number of the next document addDoc creates
    clock,                  \* the current instant (new Date()); the service
                            \* specifications run at one instant
    functions,              \* config.ts: TRUE iff the functions client exists
    pc,                     \* per caller: position inside the service function
    op,                     \* per caller: the service function running
    argQ,                   \* per caller: the question id argument (or NULL)
    argD,                   \* per caller: the difficulty argument (or "none")
    retrievedDocId,         \* per caller: local of mark / unsend
    retrievedQuestion,      \* per caller: local record built by mark
    ret,                    \* per caller: the value the call returned
    storeFailed,            \* per caller: some store call of this call threw
    aiFailed,               \* per caller: getAISummary of this call gave null
    escaped,                \* per caller: an exception left the function
    pre,                    \* the store when the running call, or the
                            \* running get-question action, was started
    hist,                   \* the last completed calls on one question
    selectedDifficulty,     \* App state
    randomQuestion,         \* App state: question id or NULL
    isRetrieving,           \* App state
    questionSent,           \* App state
    retrievalError,         \* App state: TRUE iff an error text is shown
    hpc,                    \* per caller: position inside the App handler
                            \* that made the call ("none": no handler)
    apiKey,                 \* functions: TRUE iff the API credential is set
    reply,                  \* the lines the text-generation endpoint answers
    fpc,                    \* position inside getQuestionSummary
    requests,               \* number of requests sent to the endpoint
    response,               \* how the fetch of getQuestionSummary ended
    fresult,                \* what getQuestionSummary gave its caller
    parsed,                 \* the value of parseAIResponse on the reply
    now,                    \* the reference instant (new Date())
    tzOffset,               \* local time minus UTC, in milliseconds
    range,                  \* the value of utils getWeekRange(now)
    probe,                  \* the date handed to isDateInWeekRange
    inRange,                \* the value of isDateInWeekRange(probe, range)
    isLoading,              \* WeeklySummary state
    dateRange,              \* WeeklySummary state
    weekQuestions,          \* WeeklySummary state
    message,                \* WeeklySummary state
    questionArg,            \* the question handed to createRetrievedQuestion
    created,                \* the value of createRetrievedQuestion
    bpc,                    \* per invocation of backfillWeekSummaries:
                            \* its position
    thisWeek,               \* per invocation: its locals sunday, thursday
    snapshot,               \* per invocation: the documents it fetched
    docIdx,                 \* per invocation: its place in the loop
    updated,                \* per invocation: its counter of updates
    errors,                 \* per invocation: its counter of failures
    newSummary,             \* per invocation: the summary awaiting update
    bresult                 \* per invocation: what it gave its caller

storeVars == <<retrievedQuestionsCol, nextDocId>>
callVars == <<pc, op, argQ, argD, retrievedDocId, retrievedQuestion, ret,
              storeFailed, aiFailed, escaped>>
appVars == <<selectedDifficulty, randomQuestion, isRetrieving, questionSent,
             retrievalError, hpc>>
fnVars == <<apiKey, reply, fpc, requests, response, fresult, parsed>>
weekVars == <<now, tzOffset, range, probe, inRange>>
weeklyVars == <<isLoading, dateRange, weekQuestions, message>>
createVars == <<questionArg, created>>
backfillVars == <<bpc, thisWeek, snapshot, docIdx, updated, errors, newSummary,
                  bresult>>
\* What the service functions and the App handlers never write.
envVars == <<clock, functions, fnVars, weekVars, weeklyVars, createVars,
             backfillVars>>
\* What the cloud function and the weekly summary never write.
clientVars == <<clock, functions, callVars, pre, hist, appVars>>
serviceVars == <<clientVars, createVars, backfillVars>>
vars == <<retrievedQuestionsCol, nextDocId, clock, functions, pc, op, argQ,
          argD, retrievedDocId, retrievedQuestion, ret, storeFailed,
          aiFailed, escaped, pre, hist, selectedDifficulty, randomQuestion,
          isRetrieving, questionSent, retrievalError, hpc, apiKey, reply,
          fpc, requests, response, fresult, parsed, now, tzOffset, range,
          probe, inRange, isLoading, dateRange, weekQuestions, message,
          questionArg, created, bpc, thisWeek, snapshot, docIdx, updated,
          errors, newSummary, bresult>>

NoRecord == [questionId |-> NULL]

\* ------------------------------------------------------- pure helpers
\* Bug variant: the topic tags are copied in reverse order.
createRetrievedQuestion_reversed(question, date) ==
    [questionId |-> question.id,
     frontendQuestionId |-> question.frontendQuestionId,
     title |-> question.title,
     titleSlug |-> question.titleSlug,
     difficulty |-> question.difficulty,
     topicTags |-> [i \in 1..Len(question.topicTags) |->
                       question.topicTags[Len(question.topicTags) + 1 - i]],
     sentDate |-> date,
     isChosen |-> TRUE]

\* models/RetrievedQuestion: the snapshot built from a question, where date
\* is the value of new Date().toISOString(); it has no aiSummary field.
createRetrievedQuestion(question, date) ==
    [questionId |-> question.id,
     frontendQuestionId |-> question.frontendQuestionId,
     title |-> question.title,
     titleSlug |-> question.titleSlug,
     difficulty |-> question.difficulty,
     topicTags |-> question.topicTags,
     sentDate |-> date,
     isChosen |-> TRUE]

\* The documents of a query on retrievedQuestions, where questionId == id.
SentDocs(col, questionId) == {r \in col : r.questionId = questionId}

\* Bug variant: the existence check never finds a record.
isQuestionAlreadySent_never(col, questionId, ok) ==
    {[isSent |-> FALSE, retrievedDocId |-> NULL]}

\* isQuestionAlreadySent: the results possible for a store in state col.
\* snapshot.docs[0] is the matching document with the least generated id,
\* which is unrelated to the order of insertion: any matching document can
\* be the first. ok = FALSE is a getDocs that throws, which the function
\* turns into isSent = false.
isQuestionAlreadySent(col, questionId, ok) ==
    IF ok /\ SentDocs(col, questionId) # {}
    THEN {[isSent |-> TRUE, retrievedDocId |-> r.id] :
             r \in SentDocs(col, questionId)}
    ELSE {[isSent |-> FALSE, retrievedDocId |-> NULL]}

\* sentQuestionIds and availableQuestions of
\* getRandomUnsentQuestionByDifficulty.
sentQuestionIds(col) == {r.questionId : r \in col}

\* Bug variant: the sent questions are not filtered out.
availableQuestions_all(col, difficulty) == questionsByDifficulty(difficulty)

availableQuestions(col, difficulty) ==
    {qu \in questionsByDifficulty(difficulty) :
        qu.id \notin sentQuestionIds(col)}

\* Bug variant: no fallback to the whole difficulty when all are sent.
SelectCandidates_noFallback(col, difficulty) ==
    availableQuestions(col, difficulty)

\* The list getRandomUnsentQuestionByDifficulty picks from: the available
\* questions, or all of the difficulty when none is left.
SelectCandidates(col, difficulty) ==
    IF availableQuestions(col, difficulty) = {}
    THEN questionsByDifficulty(difficulty)
    ELSE availableQuestions(col, difficulty)

\* list[Math.floor(Math.random() * list.length)]: the ids the pick can
\* give; on an empty list the index 0 is out of range and the value is
\* undefined.
PickFrom(list) == IF list = {} THEN {NULL} ELSE {qu.id : qu \in list}

\* getAISummary: null (the empty sequence) when the functions client is
\* missing or the callable throws, the reply otherwise.
getAISummary(question, hasFunctions, callOk) ==
    IF ~hasFunctions THEN <<>>
    ELSE IF callOk THEN <<SummaryOf(question)>> ELSE <<>>

\* Variant: an insert that is conditional on questionId being unused.
addDoc_unique(col, id, data) ==
    IF SentDocs(col, data.questionId) # {}
    THEN col
    ELSE col \cup {data @@ [id |-> id]}

\* addDoc(retrievedQuestionsCol, doc) with the new document id.
addDoc(col, id, data) == col \cup {data @@ [id |-> id]}

\* Bug variants: the delete removes nothing / removes every document.
deleteDoc_noop(col, id) == col

deleteDoc_clear(col, id) == {}

\* Bug variant: every record of the document's question is deleted.
deleteDoc_question(col, id) ==
    {r \in col : \A d \in col : d.id = id => r.questionId # d.questionId}

\* deleteDoc(doc(retrievedQuestionsCol, id)): no error when id is absent.
deleteDoc(col, id) == {r \in col : r.id # id}

\* ------------------------------------------------------ the AI reply text
\* A text is a sequence of symbols: a character, or one of the three labels
\* of the reply format, which stand for the literals of the source.
MaxLines == 3

\* "פתרון:", "זמן:" and "מקום:"
SolutionLabel == "pitaron:"

TimeLabel == "zman:"

SpaceLabel == "makom:"

\* "O(?)"
Placeholder == <<"O", "(", "?", ")">>

SetMin(S) == CHOOSE x \in S : \A y \in S : x <= y

SetMax(S) == CHOOSE x \in S : \A y \in S : y <= x

\* A line of a reply: the label of its kind, a separator, a body and a tail.
Line(kind, sep, body, tail) ==
    [kind |-> kind, sep |-> sep, body |-> body, tail |-> tail]

\* Solution lines: one word, several words, a label with nothing but a
\* blank after it, and a bare label.
SolutionLines ==
    {Line("solution", <<" ">>, <<"x">>, <<>>),
     Line("solution", <<" ">>, <<"x", " ", "y">>, <<>>),
     Line("solution", <<" ">>, <<>>, <<>>),
     Line("solution", <<>>, <<>>, <<>>)}

\* Time lines: the label and a token O(n) or O(n l), alone or with a
\* closing parenthesis after it (as in O(log(n))), and a line that has no
\* token after the label.
TimeLines ==
    {Line("time", <<" ">>, tok, tail) :
        tok \in {<<"O", "(", "n", ")">>, <<"O", "(", "n", " ", "l", ")">>},
        tail \in {<<>>, <<")">>}}
    \cup {Line("time", <<" ">>, <<>>, <<"n">>)}

SpaceLines ==
    {Line("space", <<" ">>, <<"O", "(", "1", ")">>, tail) :
        tail \in {<<>>, <<")">>}}

\* Lines without label: a word and the empty line.
TextLines == {Line("text", <<>>, <<"y">>, <<>>), Line("text", <<>>, <<>>, <<>>)}

Lines == SolutionLines \cup TimeLines \cup SpaceLines \cup TextLines

Replies == UNION {[1..n -> Lines] : n \in 0..MaxLines}

RenderLine(l) ==
    CASE l.kind = "solution" -> <<SolutionLabel>> \o l.sep \o l.body \o l.tail
      [] l.kind = "time" -> <<TimeLabel>> \o l.sep \o l.body \o l.tail
      [] l.kind = "space" -> <<SpaceLabel>> \o l.sep \o l.body \o l.tail
      [] l.kind = "text" -> l.sep \o l.body \o l.tail

RECURSIVE JoinLines(_)
\* The lines joined by newlines.
JoinLines(ls) ==
    IF ls = <<>> THEN <<>>
    ELSE IF Len(ls) = 1 THEN RenderLine(ls[1])
    ELSE RenderLine(ls[1]) \o <<"\n">> \o JoinLines(Tail(ls))

\* result.choices?.[0]?.message?.content || ""
content == JoinLines(reply)

\* The class \s of the regular expressions, and the characters trim()
\* removes.
isSpace(c) == c \in {" ", "\n"}

\* String.prototype.trim
trim(s) ==
    LET idx == {i \in 1..Len(s) : ~isSpace(s[i])}
    IN IF idx = {} THEN <<>> ELSE SubSeq(s, SetMin(idx), SetMax(idx))

\* content.match(/פתרון:\s*(.+?)(?=\n(?:stops):|$)/s): the empty sequence
\* when there is no match, else the one-element sequence of group 1. The
\* match starts at the first label that has a character after it; \s* takes
\* every blank, or all but the last one when nothing else follows; the
\* lazy group ends before the first newline that is followed by a label
\* of stops, or at the end of the text.
solutionMatch(text, stops) ==
    LET n == Len(text)
        starts == {i \in 1..n : text[i] = SolutionLabel /\ i < n}
    IN IF starts = {} THEN <<>>
       ELSE LET i == SetMin(starts)
                nonSpace == {j \in (i + 1)..n : ~isSpace(text[j])}
                k == IF nonSpace = {} THEN n ELSE SetMin(nonSpace)
                ends == {e \in k..n :
                            \/ e = n
                            \/ /\ e + 2 <= n
                               /\ text[e + 1] = "\n"
                               /\ text[e + 2] \in stops}
            IN <<SubSeq(text, k, SetMin(ends))>>

\* Bug variant: the token runs to the last closing parenthesis.
complexityMatch_greedy(text, label) ==
    LET n == Len(text)
        tokenAt(i) ==
            LET nonSpace == {j \in (i + 1)..n : ~isSpace(text[j])}
                j == IF nonSpace = {} THEN n + 1 ELSE SetMin(nonSpace)
                closes == {c \in (j + 3)..n : text[c] = ")"}
            IN IF j + 1 <= n /\ text[j] = "O" /\ text[j + 1] = "("
                  /\ closes # {}
               THEN <<j, SetMax(closes)>>
               ELSE <<>>
        hits == {i \in 1..n : text[i] = label /\ tokenAt(i) # <<>>}
    IN IF hits = {} THEN <<>>
       ELSE LET t == tokenAt(SetMin(hits)) IN <<SubSeq(text, t[1], t[2])>>

\* content.match(/label\s*(O\([^)]+\))/): the empty sequence when there is
\* no match, else the one-element sequence of group 1. The match is at the
\* first label that has, after any blanks, "O(", at least one character
\* other than ")" and then ")".
complexityMatch(text, label) ==
    LET n == Len(text)
        tokenAt(i) ==
            LET nonSpace == {j \in (i + 1)..n : ~isSpace(text[j])}
                j == IF nonSpace = {} THEN n + 1 ELSE SetMin(nonSpace)
                closes == {c \in (j + 2)..n : text[c] = ")"}
            IN IF j + 1 <= n /\ text[j] = "O" /\ text[j + 1] = "("
                  /\ closes # {} /\ SetMin(closes) > j + 2
               THEN <<j, SetMin(closes)>>
               ELSE <<>>
        hits == {i \in 1..n : text[i] = label /\ tokenAt(i) # <<>>}
    IN IF hits = {} THEN <<>>
       ELSE LET t == tokenAt(SetMin(hits)) IN <<SubSeq(text, t[1], t[2])>>

\* match?.[1] || "O(?)"
OrPlaceholder(match) == IF match = <<>> THEN Placeholder ELSE match[1]

\* Bug variant: no fallback to the whole text.
parseAIResponse_noFallback(text) ==
    LET solutionMatch1 == solutionMatch(text, {TimeLabel, SpaceLabel})
    IN [solution |-> IF solutionMatch1 # <<>>
                     THEN trim(solutionMatch1[1])
                     ELSE <<>>,
        timeComplexity |-> OrPlaceholder(complexityMatch(text, TimeLabel)),
        spaceComplexity |-> OrPlaceholder(complexityMatch(text, SpaceLabel))]

\* utils.ts parseAIResponse: the solution stops at the time or the space
\* line; an empty string is falsy, so a blank group gives content.trim().
parseAIResponse(text) ==
    LET solutionMatch1 == solutionMatch(text, {TimeLabel, SpaceLabel})
    IN [solution |-> IF solutionMatch1 # <<>> /\ trim(solutionMatch1[1]) # <<>>
                     THEN trim(solutionMatch1[1])
                     ELSE trim(text),
        timeComplexity |-> OrPlaceholder(complexityMatch(text, TimeLabel)),
        spaceComplexity |-> OrPlaceholder(complexityMatch(text, SpaceLabel))]

\* The parsing inside getQuestionSummary (index.ts): the lookahead of its
\* solution pattern names the time label only.
parseContent(text) ==
    LET solutionMatch1 == solutionMatch(text, {TimeLabel})
    IN [solution |-> IF solutionMatch1 # <<>> /\ trim(solutionMatch1[1]) # <<>>
                     THEN trim(solutionMatch1[1])
                     ELSE trim(text),
        timeComplexity |-> OrPlaceholder(complexityMatch(text, TimeLabel)),
        spaceComplexity |-> OrPlaceholder(complexityMatch(text, SpaceLabel))]

NoSummary == [solution |-> <<>>, timeComplexity |-> <<>>,
              spaceComplexity |-> <<>>]

\* What the callable gave: nothing yet, an AISummary, or an HttpsError.
NoResult == [kind |-> "none", code |-> "none", summary |-> NoSummary]

Success(summary) == [kind |-> "ok", code |-> "none", summary |-> summary]

HttpsError(code) == [kind |-> "error", code |-> code, summary |-> NoSummary]

\* An exception that is no HttpsError (a rejected fetch, a rejected json()).
RawError == [kind |-> "exception", code |-> "none", summary |-> NoSummary]

\* How the fetch can end: a response with response.ok, any other response,
\* a rejected fetch, a body that json() cannot parse.
Outcomes == {"ok", "not_ok", "fetch_throws", "json_throws"}

\* The try block of getQuestionSummary: the summary it returns or the error
\* it throws.
tryBlock(outcome, text) ==
    CASE outcome = "ok" -> Success(parseContent(text))
      [] outcome = "not_ok" -> HttpsError("internal")
      [] OTHER -> RawError

\* Bug variant: the catch block throws the error it caught.
catchBlock_rethrow(result) == result

\* The catch block of getQuestionSummary: whatever was thrown leaves as the
\* error "internal".
catchBlock(result) ==
    IF result.kind = "ok" THEN result ELSE HttpsError("internal")

\* ------------------------------------------------------------------ dates
\* An instant is a day number and the milliseconds into that day, in UTC.
\* Day 0 is 2025-11-01; the calendar runs to the end of February 2026.
NumRefDays == 14

MsPerDay == 24 * 60 * 60 * 1000

\* November, December, January, February
MonthLengths == <<30, 31, 31, 28>>

NoDate == [day |-> -1, ms |-> 0]

NoRange == [start |-> NoDate, end |-> NoDate]

\* The instant ms milliseconds after the start of day.
Instant(day, ms) == [day |-> day + (ms \div MsPerDay), ms |-> ms % MsPerDay]

AddMs(t, delta) == Instant(t.day, t.ms + delta)

\* a.getTime() < b.getTime(), a.getTime() <= b.getTime()
Before(a, b) == a.day < b.day \/ (a.day = b.day /\ a.ms < b.ms)

NotAfter(a, b) == ~Before(b, a)

\* The local date and time of an instant, and the instant of a local one.
Local(t) == AddMs(t, tzOffset)

FromLocal(l) == AddMs(l, -tzOffset)

RECURSIVE MonthStart(_)
\* The day number of the first day of the m-th month of the calendar.
MonthStart(m) ==
    IF m = 1 THEN 0 ELSE MonthStart(m - 1) + MonthLengths[m - 1]

CalMonth(day) ==
    CHOOSE m \in 1..Len(MonthLengths) :
        MonthStart(m) <= day /\ day < MonthStart(m + 1)

\* Date.prototype.getDay: 0 is Sunday; 2025-11-01 is a Saturday.
getDay(t) == (Local(t).day + 6) % 7

\* Date.prototype.getDate
getDate(t) == Local(t).day - MonthStart(CalMonth(Local(t).day)) + 1

\* Date.prototype.getMonth: 10 is November
getMonth(t) == (CalMonth(Local(t).day) + 9) % 12

\* Bug variant: a day of the month below 1 is not carried into the month
\* before.
setDate_clamped(t, n) ==
    FromLocal([day |-> MonthStart(CalMonth(Local(t).day))
                           + (IF n < 1 THEN 1 ELSE n) - 1,
               ms |-> Local(t).ms])

\* Date.prototype.setDate: the n-th day counted from the first day of the
\* month of t; n below 1 or above the month's length lands in a
\* neighbouring month.
setDate(t, n) ==
    FromLocal([day |-> MonthStart(CalMonth(Local(t).day)) + n - 1,
               ms |-> Local(t).ms])

\* Date.prototype.setHours(h, m, s, ms)
setHours(t, h, m, s, ms) ==
    FromLocal([day |-> Local(t).day,
               ms |-> ((h * 60 + m) * 60 + s) * 1000 + ms])

\* Bug variant: on Friday and Saturday the window is the one of the coming
\* week.
getWeekRange_upcoming(ref) ==
    LET dayOfWeek == getDay(ref)
        back == IF dayOfWeek > 4 THEN dayOfWeek - 7 ELSE dayOfWeek
        sunday == setHours(setDate(ref, getDate(ref) - back), 0, 0, 0, 0)
        thursday ==
            setHours(setDate(sunday, getDate(sunday) + 4), 23, 59, 59, 999)
    IN [start |-> sunday, end |-> thursday]

\* utils.ts getWeekRange (and its copy in WeeklySummary.tsx)
getWeekRange(ref) ==
    LET dayOfWeek == getDay(ref)
        sunday == setHours(setDate(ref, getDate(ref) - dayOfWeek), 0, 0, 0, 0)
        thursday ==
            setHours(setDate(sunday, getDate(sunday) + 4), 23, 59, 59, 999)
    IN [start |-> sunday, end |-> thursday]

\* Bug variant: the bounds are excluded.
isDateInWeekRange_exclusive(date, rng) ==
    Before(rng.start, date) /\ Before(date, rng.end)

\* utils.ts isDateInWeekRange: date >= range.start && date <= range.end
isDateInWeekRange(date, rng) ==
    NotAfter(rng.start, date) /\ NotAfter(date, rng.end)

\* Date.prototype.toISOString and new Date(isoString): the UTC fields.
toISOString(t) == [utcDay |-> t.day, utcMs |-> t.ms]

parseDate(iso) == [day |-> iso.utcDay, ms |-> iso.utcMs]

\* --------------------------------------------------- the weekly summary
MaxRecords == 3

\* snapshot.docs: the documents in the order of their ids.
SnapshotDocs(col) ==
    [i \in 1..Cardinality(col) |->
        CHOOSE r \in col : Cardinality({s \in col : s.id < r.id}) = i - 1]

\* Bug variant: the questions stay in the order of the snapshot.
sortBySentDate_unsorted(qs) == qs

RECURSIVE sortBySentDate(_)
\* .sort((a, b) => new Date(a.sentDate).getTime()
\*                 - new Date(b.sentDate).getTime()):
\* a stable sort, ascending.
sortBySentDate(qs) ==
    IF qs = <<>> THEN <<>>
    ELSE LET front == sortBySentDate(SubSeq(qs, 1, Len(qs) - 1))
             q == qs[Len(qs)]
             k == Cardinality({i \in 1..Len(front) :
                     NotAfter(parseDate(front[i].sentDate),
                              parseDate(q.sentDate))})
         IN SubSeq(front, 1, k) \o <<q>> \o SubSeq(front, k + 1, Len(front))

\* formatDateRange: the days of the month and the month names.
formatDateRange(start, end) ==
    IF getMonth(start) = getMonth(end)
    THEN <<getDate(start), getDate(end), getMonth(end)>>
    ELSE <<getDate(start), getMonth(start), getDate(end), getMonth(end)>>

\* formatQuestion: "• #<frontendQuestionId> <title> (<topics>)"
formatQuestion(q) ==
    [frontendQuestionId |-> q.frontendQuestionId,
     title |-> q.title,
     topics |-> [i \in 1..Len(q.topicTags) |-> q.topicTags[i].name]]

\* formatSection: the bullets of one difficulty, nothing when it has none.
formatSection(qs) == [i \in 1..Len(qs) |-> formatQuestion(qs[i])]

OfDifficulty(qs, d) == SelectSeq(qs, LAMBDA q : q.difficulty = d)

\* useState(''): no message yet.
NoMessage == [kind |-> "none", week |-> <<>>, easy |-> <<>>,
              medium |-> <<>>, hard |-> <<>>, total |-> 0]

\* 'אין שאלות לשבוע זה'
NoQuestionsMessage == [kind |-> "empty", week |-> <<>>, easy |-> <<>>,
                       medium |-> <<>>, hard |-> <<>>, total |-> 0]

\* generateMessage
generateMessage(questions, rng) ==
    IF Len(questions) = 0
    THEN NoQuestionsMessage
    ELSE [kind |-> "summary",
          week |-> formatDateRange(rng.start, rng.end),
          easy |-> formatSection(OfDifficulty(questions, "Easy")),
          medium |-> formatSection(OfDifficulty(questions, "Medium")),
          hard |-> formatSection(OfDifficulty(questions, "Hard")),
          total |-> Len(questions)]

\* The filter and the sort of fetchWeekQuestions.
weekQuestionsOf(col, rng) ==
    sortBySentDate(
        SelectSeq(SnapshotDocs(col),
                  LAMBDA q : /\ NotAfter(rng.start, parseDate(q.sentDate))
                             /\ NotAfter(parseDate(q.sentDate), rng.end)))

\* ------------------------------------- functions: backfillWeekSummaries
\* The callable can serve two requests at a time.
Invocations == {1, 2}

\* What backfillWeekSummaries gave: nothing yet, its counters, or an error.
NoBackfillResult ==
    [kind |-> "none", code |-> "none", updated |-> 0, errors |-> 0]

BackfillReturns(u, e) ==
    [kind |-> "ok", code |-> "none", updated |-> u, errors |-> e]

BackfillThrows(code) ==
    [kind |-> "error", code |-> code, updated |-> 0, errors |-> 0]

\* Bug variant: a record of the week is filled whether or not it has a
\* summary.
needsSummary_any(question, rng) ==
    LET sentDate == parseDate(question.sentDate)
    IN ~(Before(sentDate, rng.start) \/ Before(rng.end, sentDate))

\* The two tests of the loop body: the record is processed when neither
\* "continue" is taken.
needsSummary(question, rng) ==
    LET sentDate == parseDate(question.sentDate)
    IN /\ ~(Before(sentDate, rng.start) \/ Before(rng.end, sentDate))
       /\ "aiSummary" \notin DOMAIN question

RECURSIVE nextToFill(_, _, _)
\* The loop from document i on: the place of the first document that is
\* processed, Len(docs) + 1 when there is none.
nextToFill(docs, i, rng) ==
    IF i > Len(docs) THEN i
    ELSE IF needsSummary(docs[i], rng) THEN i
    ELSE nextToFill(docs, i + 1, rng)

\* generateAISummary: <<summary>>, or <<>> when it throws (a response that
\* is not ok, a rejected fetch or json()).
generateAISummary(outcome, text) ==
    IF outcome = "ok" THEN <<parseContent(text)>> ELSE <<>>

\* doc.ref.update({aiSummary}): the field is set, replacing its old value.
update(col, id, aiSummary) ==
    {IF r.id = id THEN [aiSummary |-> aiSummary] @@ r ELSE r : r \in col}

AllIdle == \A p \in Procs : pc[p] = "idle"

TypeOK ==
    /\ nextDocId \in 1..(MaxDocIds + 1)
    /\ {r.id : r \in retrievedQuestionsCol} \subseteq 1..(nextDocId - 1)
    /\ clock \in Nat
    /\ functions \in BOOLEAN
    /\ \A p \in Procs : pc[p] \in {"idle", "sel_questions", "sel_sent",
            "chk", "mark_chk", "mark_ai", "mark_add", "un_chk", "un_del",
            "done"}

\* ------------------------------------------------------------------ Init
\* No service call and no handler is running.
CallersIdle ==
    /\ pc = [p \in Procs |-> "idle"]
    /\ op = [p \in Procs |-> "none"]
    /\ argQ = [p \in Procs |-> NULL]
    /\ argD = [p \in Procs |-> "none"]
    /\ retrievedDocId = [p \in Procs |-> NULL]
    /\ retrievedQuestion = [p \in Procs |-> NoRecord]
    /\ ret = [p \in Procs |-> NULL]
    /\ storeFailed = [p \in Procs |-> FALSE]
    /\ aiFailed = [p \in Procs |-> FALSE]
    /\ escaped = [p \in Procs |-> FALSE]
    /\ pre = {}
    /\ hist = <<>>
    /\ selectedDifficulty = "Easy"
    /\ randomQuestion = NULL
    /\ isRetrieving = FALSE
    /\ questionSent = FALSE
    /\ retrievalError = FALSE
    /\ hpc = [p \in Procs |-> "none"]

\* getQuestionSummary is not called.
SummaryIdle ==
    /\ fpc = "start"
    /\ requests = 0
    /\ response = "none"
    /\ fresult = NoResult
    /\ parsed = NoSummary

\* The week functions are not called.
WeekIdle ==
    /\ range = NoRange
    /\ probe = NoDate
    /\ inRange = FALSE

\* WeeklySummary: the useState initial values.
WeeklyIdle ==
    /\ isLoading = FALSE
    /\ dateRange = NoRange
    /\ weekQuestions = <<>>
    /\ message = NoMessage

\* backfillWeekSummaries is not called.
BackfillIdle ==
    /\ bpc = [c \in Invocations |-> "start"]
    /\ thisWeek = [c \in Invocations |-> NoRange]
    /\ snapshot = [c \in Invocations |-> <<>>]
    /\ docIdx = [c \in Invocations |-> 0]
    /\ updated = [c \in Invocations |-> 0]
    /\ errors = [c \in Invocations |-> 0]
    /\ newSummary = [c \in Invocations |-> NoSummary]
    /\ bresult = [c \in Invocations |-> NoBackfillResult]

\* createRetrievedQuestion is not called.
CreateIdle ==
    /\ questionArg = NoRecord
    /\ created = NoRecord

Init ==
    /\ retrievedQuestionsCol = {}
    /\ nextDocId = 1
    /\ clock = 0
    /\ functions \in BOOLEAN
    /\ CallersIdle
    /\ apiKey = TRUE
    /\ reply = <<>>
    /\ SummaryIdle
    /\ now = NoDate
    /\ tzOffset = 0
    /\ WeekIdle
    /\ WeeklyIdle
    /\ BackfillIdle
    /\ CreateIdle

\* ------------------------------------------------- starting a service call
FirstStep(o) ==
    CASE o = "select" -> "sel_questions"
      [] o = "isSent" -> "chk"
      [] o = "mark" -> "mark_chk"
      [] o = "unsend" -> "un_chk"

\* Calls of markQuestionAsSent that may still insert a document.
MarksInFlight ==
    {p \in Procs : op[p] = "mark" /\ pc[p] \notin {"idle", "done"}}

\* The store hands out at most MaxDocIds document ids.
CanStartMark == (nextDocId - 1) + Cardinality(MarksInFlight) < MaxDocIds

Start(p, o, qq, dd) ==
    /\ pc' = [pc EXCEPT ![p] = FirstStep(o)]
    /\ op' = [op EXCEPT ![p] = o]
    /\ argQ' = [argQ EXCEPT ![p] = qq]
    /\ argD' = [argD EXCEPT ![p] = dd]
    /\ retrievedDocId' = [retrievedDocId EXCEPT ![p] = NULL]
    /\ retrievedQuestion' = [retrievedQuestion EXCEPT ![p] = NoRecord]
    /\ ret' = [ret EXCEPT ![p] = NULL]
    /\ storeFailed' = [storeFailed EXCEPT ![p] = FALSE]
    /\ aiFailed' = [aiFailed EXCEPT ![p] = FALSE]
    /\ escaped' = [escaped EXCEPT ![p] = FALSE]

\* Caller slots are interchangeable: a new call takes the first free one.
FirstFree(p) == \A p2 \in Procs : p2 < p => pc[p2] # "idle"

\* A caller of the service starts one of the four public operations; seq
\* restricts callers to one call in flight at a time.
CallService(p, o, qq, dd, seq) ==
    /\ hpc[p] = "none"
    /\ pc[p] = "idle"
    /\ FirstFree(p)
    /\ seq => AllIdle
    /\ o = "mark" => CanStartMark
    /\ Start(p, o, qq, dd)
    /\ pre' = IF seq THEN retrievedQuestionsCol ELSE pre
    /\ UNCHANGED <<storeVars, envVars, hist, appVars>>

\* The call returns v: its locals are gone, the caller holds the value.
Finish(p, v) ==
    /\ pc' = [pc EXCEPT ![p] = "done"]
    /\ ret' = [ret EXCEPT ![p] = v]
    /\ retrievedDocId' = [retrievedDocId EXCEPT ![p] = NULL]
    /\ retrievedQuestion' = [retrievedQuestion EXCEPT ![p] = NoRecord]

\* The call goes on to its next await with the locals docId and rq.
Goto(p, step, docId, rq) ==
    /\ pc' = [pc EXCEPT ![p] = step]
    /\ retrievedDocId' = [retrievedDocId EXCEPT ![p] = docId]
    /\ retrievedQuestion' = [retrievedQuestion EXCEPT ![p] = rq]
    /\ ret' = ret

\* The value the catch block of a public operation returns.
CatchValue(o) ==
    CASE o = "select" -> NULL
      [] o = "mark" -> NULL
      [] o = "unsend" -> FALSE
      [] o = "isSent" -> [isSent |-> FALSE, retrievedDocId |-> NULL]

\* A store call throws inside the try block of the running operation: the
\* catch block returns its value and nothing is rethrown.
Throw(p) ==
    /\ Finish(p, CatchValue(op[p]))
    /\ escaped' = [escaped EXCEPT ![p] = FALSE]

\* -------------------------------- getRandomUnsentQuestionByDifficulty
SelGetQuestions(p, ok) ==
    /\ pc[p] = "sel_questions"
    /\ IF ~ok
       THEN Throw(p)
       ELSE /\ IF questionsByDifficulty(argD[p]) = {}
               THEN Finish(p, NULL)
               ELSE Goto(p, "sel_sent", NULL, NoRecord)
            /\ UNCHANGED escaped
    /\ storeFailed' = [storeFailed EXCEPT ![p] = ~ok]
    /\ UNCHANGED <<storeVars, envVars, op, argQ, argD, aiFailed,
                   pre, hist, appVars>>

\* Bug variant: a selection that finds every question of the difficulty
\* sent starts the cycle over by deleting their records.
SelGetRetrieved_reset(p, ok) ==
    /\ pc[p] = "sel_sent"
    /\ IF ~ok
       THEN /\ Throw(p)
            /\ UNCHANGED retrievedQuestionsCol
       ELSE /\ \E id \in PickFrom(SelectCandidates(retrievedQuestionsCol,
                                                   argD[p])) :
                  Finish(p, id)
            /\ retrievedQuestionsCol' =
                   IF availableQuestions(retrievedQuestionsCol, argD[p]) = {}
                   THEN {r \in retrievedQuestionsCol :
                            r.difficulty # argD[p]}
                   ELSE retrievedQuestionsCol
            /\ UNCHANGED escaped
    /\ storeFailed' = [storeFailed EXCEPT ![p] = ~ok]
    /\ UNCHANGED <<nextDocId, envVars, op, argQ, argD, aiFailed,
                   pre, hist, appVars>>

SelGetRetrieved(p, ok) ==
    /\ pc[p] = "sel_sent"
    /\ IF ~ok
       THEN Throw(p)
       ELSE /\ \E id \in PickFrom(SelectCandidates(retrievedQuestionsCol,
                                                   argD[p])) :
                  Finish(p, id)
            /\ UNCHANGED escaped
    /\ storeFailed' = [storeFailed EXCEPT ![p] = ~ok]
    /\ UNCHANGED <<storeVars, envVars, op, argQ, argD, aiFailed,
                   pre, hist, appVars>>

\* ------------------------------------------------ isQuestionAlreadySent
CheckSent(p, ok) ==
    /\ pc[p] = "chk"
    /\ \E r \in isQuestionAlreadySent(retrievedQuestionsCol, argQ[p], ok) :
          Finish(p, r)
    /\ storeFailed' = [storeFailed EXCEPT ![p] = ~ok]
    /\ UNCHANGED <<storeVars, envVars, op, argQ, argD, aiFailed,
                   escaped, pre, hist, appVars>>

\* Bug variant: an existing record is found but the call inserts anyway.
MarkCheck_noEarlyReturn(p, ok) ==
    /\ pc[p] = "mark_chk"
    /\ \E r \in isQuestionAlreadySent(retrievedQuestionsCol, argQ[p], ok) :
          Goto(p, "mark_ai", r.retrievedDocId,
               createRetrievedQuestion(QuestionDoc(argQ[p]), clock))
    /\ storeFailed' = [storeFailed EXCEPT ![p] = ~ok]
    /\ UNCHANGED <<storeVars, envVars, op, argQ, argD, aiFailed,
                   escaped, pre, hist, appVars>>

\* --------------------------------------------------- markQuestionAsSent
MarkCheck(p, ok) ==
    /\ pc[p] = "mark_chk"
    /\ \E r \in isQuestionAlreadySent(retrievedQuestionsCol, argQ[p], ok) :
          IF r.isSent /\ r.retrievedDocId # NULL
          THEN Finish(p, r.retrievedDocId)
          ELSE Goto(p, "mark_ai", r.retrievedDocId,
                    createRetrievedQuestion(QuestionDoc(argQ[p]), clock))
    /\ storeFailed' = [storeFailed EXCEPT ![p] = ~ok]
    /\ UNCHANGED <<storeVars, envVars, op, argQ, argD, aiFailed,
                   escaped, pre, hist, appVars>>

\* Bug variant: a failed summary call aborts the mark.
MarkAISummary_abort(p, callOk) ==
    /\ pc[p] = "mark_ai"
    /\ LET aiSummary == getAISummary(QuestionDoc(argQ[p]), functions, callOk)
       IN /\ IF aiSummary # <<>>
             THEN Goto(p, "mark_add", retrievedDocId[p],
                       retrievedQuestion[p] @@ [aiSummary |-> aiSummary[1]])
             ELSE Finish(p, NULL)
          /\ aiFailed' = [aiFailed EXCEPT ![p] = (aiSummary = <<>>)]
    /\ UNCHANGED <<storeVars, envVars, op, argQ, argD, storeFailed,
                   escaped, pre, hist, appVars>>

MarkAISummary(p, callOk) ==
    /\ pc[p] = "mark_ai"
    /\ LET aiSummary == getAISummary(QuestionDoc(argQ[p]), functions, callOk)
       IN /\ Goto(p, "mark_add", retrievedDocId[p],
                  IF aiSummary # <<>>
                  THEN retrievedQuestion[p] @@ [aiSummary |-> aiSummary[1]]
                  ELSE retrievedQuestion[p])
          /\ aiFailed' = [aiFailed EXCEPT ![p] = (aiSummary = <<>>)]
    /\ UNCHANGED <<storeVars, envVars, op, argQ, argD, storeFailed,
                   escaped, pre, hist, appVars>>

MarkAddDoc(p, ok) ==
    /\ pc[p] = "mark_add"
    /\ IF ok
       THEN /\ nextDocId \in DocIds
            /\ retrievedQuestionsCol' =
                   addDoc(retrievedQuestionsCol, nextDocId,
                          retrievedQuestion[p])
            /\ nextDocId' = nextDocId + 1
            /\ Finish(p, nextDocId)
            /\ UNCHANGED <<storeFailed, escaped>>
       ELSE /\ Throw(p)
            /\ storeFailed' = [storeFailed EXCEPT ![p] = TRUE]
            /\ UNCHANGED storeVars
    /\ UNCHANGED <<envVars, op, argQ, argD, aiFailed, pre, hist,
                   appVars>>

\* ------------------------------------------------------- unsendQuestion
UnsendCheck(p, ok) ==
    /\ pc[p] = "un_chk"
    /\ \E r \in isQuestionAlreadySent(retrievedQuestionsCol, argQ[p], ok) :
          IF r.isSent /\ r.retrievedDocId # NULL
          THEN Goto(p, "un_del", r.retrievedDocId, NoRecord)
          ELSE Finish(p, FALSE)
    /\ storeFailed' = [storeFailed EXCEPT ![p] = ~ok]
    /\ UNCHANGED <<storeVars, envVars, op, argQ, argD, aiFailed,
                   escaped, pre, hist, appVars>>

UnsendDeleteDoc(p, ok) ==
    /\ pc[p] = "un_del"
    /\ IF ok
       THEN /\ retrievedQuestionsCol' =
                   deleteDoc(retrievedQuestionsCol, retrievedDocId[p])
            /\ Finish(p, TRUE)
            /\ UNCHANGED <<storeFailed, escaped>>
       ELSE /\ Throw(p)
            /\ storeFailed' = [storeFailed EXCEPT ![p] = TRUE]
            /\ UNCHANGED retrievedQuestionsCol
    /\ UNCHANGED <<nextDocId, envVars, op, argQ, argD, aiFailed,
                   pre, hist, appVars>>

\* ------------------------------------------------------ return to caller
HistEntry(p) ==
    [op |-> op[p], q |-> argQ[p], ret |-> ret[p],
     wasSent |-> (SentDocs(pre, argQ[p]) # {})]

\* hist follows one question through the completed calls: <<m>> after a
\* mark m that returned an id, <<m, u>> when the unsend u of the same
\* question came next. Reads and calls on other questions' records leave
\* it alone; a mark of another question starts over.
Remember(h, e) ==
    CASE e.op \in {"select", "isSent"} -> h
      [] e.op = "mark" -> IF e.ret # NULL THEN <<e>> ELSE <<>>
      [] e.op = "unsend" ->
            IF h # <<>> /\ h[1].q # e.q THEN h
            ELSE IF Len(h) = 1 THEN <<h[1], e>> ELSE <<>>

\* The caller has taken the returned value: its slot is free again.
EndCall(p) ==
    /\ pc' = [pc EXCEPT ![p] = "idle"]
    /\ op' = [op EXCEPT ![p] = "none"]
    /\ argQ' = [argQ EXCEPT ![p] = NULL]
    /\ argD' = [argD EXCEPT ![p] = "none"]
    /\ retrievedDocId' = [retrievedDocId EXCEPT ![p] = NULL]
    /\ retrievedQuestion' = [retrievedQuestion EXCEPT ![p] = NoRecord]
    /\ ret' = [ret EXCEPT ![p] = NULL]
    /\ storeFailed' = [storeFailed EXCEPT ![p] = FALSE]
    /\ aiFailed' = [aiFailed EXCEPT ![p] = FALSE]
    /\ escaped' = escaped

Return(p, seq) ==
    /\ hpc[p] = "none"
    /\ pc[p] = "done"
    /\ EndCall(p)
    /\ hist' = IF seq THEN Remember(hist, HistEntry(p)) ELSE hist
    /\ UNCHANGED <<storeVars, envVars, pre, appVars>>

\* ------------------------------------------------------------- App.tsx
\* The get-question button of QuestionSelector, which is handed
\* isRetrieving, is disabled while isRetrieving is set.
QuestionSelectorEnabled == ~isRetrieving

\* {randomQuestion && <QuestionCard .../>}: the card, with its toggle and
\* get-another buttons, is rendered whenever a question is displayed; it is
\* not handed isRetrieving.
QuestionCardShown == randomQuestion # NULL

\* No handler of the App is in flight.
NoHandler == \A p \in Procs : hpc[p] = "none"

\* Handlers in flight that may still insert a document.
HandlersToInsert ==
    {p \in Procs : hpc[p] \in {"get_select", "get_mark", "tog_mark"}}

CanClickMark ==
    (nextDocId - 1) + Cardinality(HandlersToInsert) < MaxDocIds

\* A handler is over: the finally block clears isRetrieving.
HandlerEnd(p) ==
    /\ EndCall(p)
    /\ hpc' = [hpc EXCEPT ![p] = "none"]
    /\ isRetrieving' = FALSE

\* A handler awaits its next service call.
HandlerCall(p, step, o, qq, dd) ==
    /\ Start(p, o, qq, dd)
    /\ hpc' = [hpc EXCEPT ![p] = step]

\* onSelectDifficulty = setSelectedDifficulty
setSelectedDifficulty(dd) ==
    /\ QuestionSelectorEnabled
    /\ dd # selectedDifficulty
    /\ selectedDifficulty' = dd
    /\ UNCHANGED <<storeVars, envVars, callVars, pre, hist,
                   randomQuestion, isRetrieving, questionSent,
                   retrievalError, hpc>>

\* handleGetRandomQuestion up to its first await, started from the
\* selector (onGetQuestion) or from the card (onGetAnother).
handleGetRandomQuestion(p) ==
    /\ hpc[p] = "none" /\ pc[p] = "idle" /\ FirstFree(p)
    /\ QuestionSelectorEnabled \/ QuestionCardShown
    /\ CanClickMark
    /\ isRetrieving' = TRUE
    /\ retrievalError' = FALSE
    /\ randomQuestion' = NULL
    /\ HandlerCall(p, "get_select", "select", NULL, selectedDifficulty)
    /\ pre' = retrievedQuestionsCol
    /\ UNCHANGED <<storeVars, envVars, hist,
                   selectedDifficulty, questionSent>>

\* getRandomUnsentQuestionByDifficulty has returned.
GetRandomAfterSelect(p) ==
    /\ hpc[p] = "get_select" /\ pc[p] = "done"
    /\ randomQuestion' = ret[p]
    /\ IF ret[p] = NULL
       THEN /\ retrievalError' = TRUE
            /\ HandlerEnd(p)
       ELSE /\ HandlerCall(p, "get_mark", "mark", ret[p], "none")
            /\ UNCHANGED <<retrievalError, isRetrieving>>
    /\ UNCHANGED <<storeVars, envVars, pre, hist,
                   selectedDifficulty, questionSent>>

\* The auto-mark has returned.
GetRandomAfterMark(p) ==
    /\ hpc[p] = "get_mark" /\ pc[p] = "done"
    /\ IF ret[p] # NULL
       THEN /\ questionSent' = TRUE
            /\ HandlerEnd(p)
       ELSE /\ HandlerCall(p, "get_check", "isSent", argQ[p], "none")
            /\ UNCHANGED <<questionSent, isRetrieving>>
    /\ UNCHANGED <<storeVars, envVars, pre, hist,
                   selectedDifficulty, randomQuestion, retrievalError>>

\* The fallback isQuestionAlreadySent has returned.
GetRandomAfterCheck(p) ==
    /\ hpc[p] = "get_check" /\ pc[p] = "done"
    /\ questionSent' = ret[p].isSent
    /\ HandlerEnd(p)
    /\ UNCHANGED <<storeVars, envVars, pre, hist,
                   selectedDifficulty, randomQuestion, retrievalError>>

\* handleToggleSentStatus up to its await, started from the card.
handleToggleSentStatus(p) ==
    /\ hpc[p] = "none" /\ pc[p] = "idle" /\ FirstFree(p)
    /\ QuestionCardShown
    /\ isRetrieving' = TRUE
    /\ IF questionSent
       THEN HandlerCall(p, "tog_unsend", "unsend", randomQuestion, "none")
       ELSE /\ CanClickMark
            /\ HandlerCall(p, "tog_mark", "mark", randomQuestion, "none")
    /\ UNCHANGED <<storeVars, envVars, pre, hist,
                   selectedDifficulty, randomQuestion, questionSent,
                   retrievalError>>

\* unsendQuestion has returned to handleToggleSentStatus.
ToggleAfterUnsend(p) ==
    /\ hpc[p] = "tog_unsend" /\ pc[p] = "done"
    /\ questionSent' = IF ret[p] = TRUE THEN FALSE ELSE questionSent
    /\ HandlerEnd(p)
    /\ UNCHANGED <<storeVars, envVars, pre, hist,
                   selectedDifficulty, randomQuestion, retrievalError>>

\* markQuestionAsSent has returned to handleToggleSentStatus.
ToggleAfterMark(p) ==
    /\ hpc[p] = "tog_mark" /\ pc[p] = "done"
    /\ questionSent' = IF ret[p] # NULL THEN TRUE ELSE questionSent
    /\ HandlerEnd(p)
    /\ UNCHANGED <<storeVars, envVars, pre, hist,
                   selectedDifficulty, randomQuestion, retrievalError>>

\* ------------------------------------------- functions: getQuestionSummary
\* Bug variant: the request is sent whether or not the credential is set.
getQuestionSummary_noKeyCheck ==
    /\ fpc = "start"
    /\ fpc' = "fetch"
    /\ requests' = requests + 1
    /\ UNCHANGED <<storeVars, serviceVars, apiKey, reply, response, fresult,
                   parsed, weekVars, weeklyVars>>

\* getQuestionSummary up to its await: without the credential it throws
\* before the fetch, else the POST request goes out.
getQuestionSummary ==
    /\ fpc = "start"
    /\ IF ~apiKey
       THEN /\ fpc' = "done"
            /\ fresult' = HttpsError("failed-precondition")
            /\ requests' = requests
       ELSE /\ fpc' = "fetch"
            /\ requests' = requests + 1
            /\ fresult' = fresult
    /\ UNCHANGED <<storeVars, serviceVars, apiKey, reply, response, parsed,
                   weekVars, weeklyVars>>

\* The fetch is over: the try block runs to its return or to a throw, and
\* the catch block decides what leaves the function.
FetchReturns(outcome) ==
    /\ fpc = "fetch"
    /\ fpc' = "done"
    /\ response' = outcome
    /\ fresult' = catchBlock(tryBlock(outcome, content))
    /\ UNCHANGED <<storeVars, serviceVars, apiKey, reply, requests, parsed,
                   weekVars, weeklyVars>>

\* parseAIResponse(content) is computed.
ApplyParseAIResponse ==
    /\ parsed = NoSummary
    /\ parsed' = parseAIResponse(content)
    /\ UNCHANGED <<storeVars, serviceVars, apiKey, reply, fpc, requests,
                   response, fresult, weekVars, weeklyVars>>

\* -------------------------------------------------- utils: week functions
\* getWeekRange(now) is computed.
ApplyGetWeekRange ==
    /\ range = NoRange
    /\ range' = getWeekRange(now)
    /\ UNCHANGED <<storeVars, serviceVars, fnVars, now, tzOffset, probe,
                   inRange, weeklyVars>>

\* The dates isDateInWeekRange is asked about: the bounds, their
\* neighbours one millisecond outside, and the reference instant.
Probes == {range.start, range.end, AddMs(range.start, -1),
           AddMs(range.end, 1), now}

\* isDateInWeekRange(date, range) is computed.
ApplyIsDateInWeekRange(date) ==
    /\ range # NoRange
    /\ probe' = date
    /\ inRange' = isDateInWeekRange(date, range)
    /\ UNCHANGED <<storeVars, serviceVars, fnVars, now, tzOffset, range,
                   weeklyVars>>

\* ------------------------------------------------------ WeeklySummary.tsx
\* fetchWeekQuestions up to its await (the effect on isVisible, or the
\* Refresh button, which is disabled while isLoading).
fetchWeekQuestions ==
    /\ ~isLoading
    /\ isLoading' = TRUE
    /\ dateRange' = getWeekRange(now)
    /\ UNCHANGED <<storeVars, serviceVars, fnVars, weekVars, weekQuestions,
                   message>>

\* getDocs has returned: the questions of the week are filtered, sorted and
\* formatted; when it threw, the catch block only logs.
FetchAfterGetDocs(ok) ==
    /\ isLoading
    /\ isLoading' = FALSE
    /\ IF ok
       THEN /\ weekQuestions' =
                   weekQuestionsOf(retrievedQuestionsCol, dateRange)
            /\ message' = generateMessage(weekQuestions', dateRange)
       ELSE UNCHANGED <<weekQuestions, message>>
    /\ UNCHANGED <<storeVars, serviceVars, fnVars, weekVars, dateRange>>

\* ------------------------------------- functions: backfillWeekSummaries
\* The answer of the text-generation endpoint to the requests of
\* invocation c: the answers to two invocations differ in their wording.
BackfillReply(c) ==
    <<Line("solution", <<" ">>,
           IF c = 1 THEN <<"x">> ELSE <<"x", " ", "y">>, <<>>),
      Line("time", <<" ">>, <<"O", "(", "n", ")">>, <<>>),
      Line("space", <<" ">>, <<"O", "(", "1", ")">>, <<>>)>>

\* The loop of invocation c goes on from document i with the counters u
\* and e, to its next await or to the return.
LoopFrom(c, docs, i, u, e) ==
    LET j == nextToFill(docs, i, thisWeek[c])
    IN /\ docIdx' = [docIdx EXCEPT ![c] = j]
       /\ updated' = [updated EXCEPT ![c] = u]
       /\ errors' = [errors EXCEPT ![c] = e]
       /\ IF j > Len(docs)
          THEN /\ bpc' = [bpc EXCEPT ![c] = "done"]
               /\ bresult' = [bresult EXCEPT ![c] = BackfillReturns(u, e)]
          ELSE /\ bpc' = [bpc EXCEPT ![c] = "ai"]
               /\ bresult' = bresult

\* backfillWeekSummaries up to its first await: without the credential it
\* throws, else it computes the week of now and asks for all documents.
\* Invocations are interchangeable: the second starts after the first.
backfillWeekSummaries(c) ==
    /\ bpc[c] = "start"
    /\ \A c2 \in Invocations : c2 < c => bpc[c2] # "start"
    /\ IF ~apiKey
       THEN /\ bpc' = [bpc EXCEPT ![c] = "done"]
            /\ bresult' = [bresult EXCEPT
                              ![c] = BackfillThrows("failed-precondition")]
            /\ thisWeek' = thisWeek
       ELSE LET dayOfWeek == getDay(now)
                sunday == setHours(setDate(now, getDate(now) - dayOfWeek),
                                   0, 0, 0, 0)
                thursday == setHours(setDate(sunday, getDate(sunday) + 4),
                                     23, 59, 59, 999)
            IN /\ bpc' = [bpc EXCEPT ![c] = "get"]
               /\ thisWeek' = [thisWeek EXCEPT
                                  ![c] = [start |-> sunday, end |-> thursday]]
               /\ bresult' = bresult
    /\ UNCHANGED <<storeVars, clientVars, createVars, fnVars, weekVars,
                   weeklyVars, snapshot, docIdx, updated, errors,
                   newSummary>>

\* The documents have arrived and the loop runs to its first await; a
\* rejected get() leaves the function as an exception.
BackfillGet(c, ok) ==
    /\ bpc[c] = "get"
    /\ IF ok
       THEN /\ snapshot' = [snapshot EXCEPT
                               ![c] = SnapshotDocs(retrievedQuestionsCol)]
            /\ LoopFrom(c, snapshot'[c], 1, 0, 0)
       ELSE /\ bpc' = [bpc EXCEPT ![c] = "done"]
            /\ bresult' = [bresult EXCEPT ![c] = BackfillThrows("exception")]
            /\ UNCHANGED <<snapshot, docIdx, updated, errors>>
    /\ UNCHANGED <<storeVars, clientVars, createVars, fnVars, weekVars,
                   weeklyVars, thisWeek, newSummary>>

\* generateAISummary has returned or thrown; a throw is counted by the
\* catch block inside the loop, which goes on.
BackfillGenerate(c, outcome) ==
    /\ bpc[c] = "ai"
    /\ LET aiSummary == generateAISummary(outcome,
                                          JoinLines(BackfillReply(c)))
       IN IF aiSummary # <<>>
          THEN /\ bpc' = [bpc EXCEPT ![c] = "update"]
               /\ newSummary' = [newSummary EXCEPT ![c] = aiSummary[1]]
               /\ UNCHANGED <<docIdx, updated, errors, bresult>>
          ELSE /\ newSummary' = newSummary
               /\ LoopFrom(c, snapshot[c], docIdx[c] + 1, updated[c],
                           errors[c] + 1)
    /\ UNCHANGED <<storeVars, clientVars, createVars, fnVars, weekVars,
                   weeklyVars, thisWeek, snapshot>>

\* doc.ref.update has returned or thrown: the record is counted as updated
\* (and the 500 ms pause passes) or as an error, and the loop goes on.
BackfillUpdate(c, ok) ==
    /\ bpc[c] = "update"
    /\ IF ok
       THEN /\ retrievedQuestionsCol' =
                   update(retrievedQuestionsCol,
                          snapshot[c][docIdx[c]].id, newSummary[c])
            /\ LoopFrom(c, snapshot[c], docIdx[c] + 1, updated[c] + 1,
                        errors[c])
       ELSE /\ retrievedQuestionsCol' = retrievedQuestionsCol
            /\ LoopFrom(c, snapshot[c], docIdx[c] + 1, updated[c],
                        errors[c] + 1)
    /\ newSummary' = [newSummary EXCEPT ![c] = NoSummary]
    /\ UNCHANGED <<nextDocId, clientVars, createVars, fnVars, weekVars,
                   weeklyVars, thisWeek, snapshot>>

\* ------------------------------------------- models/RetrievedQuestion.ts
\* createRetrievedQuestion(questionArg) is computed at the instant now.
ApplyCreateRetrievedQuestion ==
    /\ created = NoRecord
    /\ created' = createRetrievedQuestion(questionArg, toISOString(now))
    /\ UNCHANGED <<storeVars, clientVars, backfillVars, fnVars, weekVars,
                   weeklyVars, questionArg>>

\* ------------------------------------------------------- specifications
\* One step of a reading call; ok is the outcome of its store call.
ReadStep(p, ok) ==
    \/ SelGetQuestions(p, ok)
    \/ SelGetRetrieved(p, ok)
    \/ CheckSent(p, ok)

\* One step of a writing call; ok is the outcome of its store call, callOk
\* the outcome of the remote summary call.
WriteStep(p, ok, callOk) ==
    \/ MarkCheck(p, ok)
    \/ MarkAISummary(p, callOk)
    \/ MarkAddDoc(p, ok)
    \/ UnsendCheck(p, ok)
    \/ UnsendDeleteDoc(p, ok)

WriteCall(p, seq) ==
    \E qq \in Questions, o \in {"mark", "unsend"} :
        CallService(p, o, qq, "none", seq)

ReadCall(p, seq) ==
    \/ \E dd \in Difficulties : CallService(p, "select", NULL, dd, seq)
    \/ \E qq \in Questions : CallService(p, "isSent", qq, "none", seq)

\* Concurrent writers of the Sent-Record Store (several users, or
\* overlapping handlers): calls of markQuestionAsSent and unsendQuestion
\* interleave at their awaits. The store calls succeed, the summary call
\* may fail.
Next ==
    \/ \E p \in Procs : WriteCall(p, FALSE)
    \/ \E p \in Procs, callOk \in BOOLEAN : WriteStep(p, TRUE, callOk)
    \/ \E p \in Procs : Return(p, FALSE)

Spec == Init /\ [][Next]_vars

\* The four public operations, run one at a time, each to completion; the
\* store calls succeed, the summary call may fail.
NextSeq ==
    \/ \E p \in Procs : ReadCall(p, TRUE)
    \/ \E p \in Procs : WriteCall(p, TRUE)
    \/ \E p \in Procs : ReadStep(p, TRUE)
    \/ \E p \in Procs, callOk \in BOOLEAN : WriteStep(p, TRUE, callOk)
    \/ \E p \in Procs : Return(p, TRUE)

SpecSeq == Init /\ [][NextSeq]_vars

\* The four public operations, run one at a time, where any store call may
\* throw.
NextFail ==
    \/ \E p \in Procs : ReadCall(p, TRUE)
    \/ \E p \in Procs : WriteCall(p, TRUE)
    \/ \E p \in Procs, ok \in BOOLEAN : ReadStep(p, ok)
    \/ \E p \in Procs, ok \in BOOLEAN, callOk \in BOOLEAN :
          WriteStep(p, ok, callOk)
    \/ \E p \in Procs : Return(p, FALSE)

SpecFail == Init /\ [][NextFail]_vars

\* One user at the App: the handlers make the service calls, and any store
\* call may throw.
NextApp ==
    \/ \E dd \in Difficulties : setSelectedDifficulty(dd)
    \/ \E p \in Procs : handleGetRandomQuestion(p)
    \/ \E p \in Procs : GetRandomAfterSelect(p)
    \/ \E p \in Procs : GetRandomAfterMark(p)
    \/ \E p \in Procs : GetRandomAfterCheck(p)
    \/ \E p \in Procs : handleToggleSentStatus(p)
    \/ \E p \in Procs : ToggleAfterUnsend(p)
    \/ \E p \in Procs : ToggleAfterMark(p)
    \/ \E p \in Procs, ok \in BOOLEAN : ReadStep(p, ok)
    \/ \E p \in Procs, ok \in BOOLEAN, callOk \in BOOLEAN :
          WriteStep(p, ok, callOk)

SpecApp == Init /\ [][NextApp]_vars

\* One user at the App whose actions run one at a time, each handler to
\* its end, with every store call succeeding (the summary call may fail).
\* markQuestionAsSent then never returns null, so the fallback check of
\* handleGetRandomQuestion is not reached.
NextAppSeq ==
    \/ \E dd \in Difficulties : setSelectedDifficulty(dd)
    \/ \E p \in Procs : NoHandler /\ handleGetRandomQuestion(p)
    \/ \E p \in Procs : GetRandomAfterSelect(p)
    \/ \E p \in Procs : GetRandomAfterMark(p)
    \/ \E p \in Procs : NoHandler /\ handleToggleSentStatus(p)
    \/ \E p \in Procs : ToggleAfterUnsend(p)
    \/ \E p \in Procs : ToggleAfterMark(p)
    \/ \E p \in Procs : SelGetQuestions(p, TRUE)
    \/ \E p \in Procs : SelGetRetrieved(p, TRUE)
    \/ \E p \in Procs, callOk \in BOOLEAN : WriteStep(p, TRUE, callOk)

SpecAppSeq == Init /\ [][NextAppSeq]_vars

\* The callable getQuestionSummary and the parser of utils.ts on every
\* reply of at most MaxLines lines, with and without the credential.
InitSummary ==
    /\ retrievedQuestionsCol = {}
    /\ nextDocId = 1
    /\ clock = 0
    /\ functions = TRUE
    /\ CallersIdle
    /\ apiKey \in BOOLEAN
    /\ reply \in Replies
    /\ SummaryIdle
    /\ now = NoDate
    /\ tzOffset = 0
    /\ WeekIdle
    /\ WeeklyIdle
    /\ BackfillIdle
    /\ CreateIdle

NextSummary ==
    \/ getQuestionSummary
    \/ \E outcome \in Outcomes : FetchReturns(outcome)
    \/ ApplyParseAIResponse

SpecSummary == InitSummary /\ [][NextSummary]_vars

\* The reference instants: NumRefDays days from Monday 2025-11-24 on, each
\* at the first, the second, the middle and the last millisecond of the
\* day (UTC), in three time zones.
RefInstants ==
    {Instant(day, ms) :
        day \in 23..(23 + NumRefDays - 1),
        ms \in {0, 1, 12 * 60 * 60 * 1000, MsPerDay - 1}}

TzOffsets == {-5 * 60 * 60 * 1000, 0, 2 * 60 * 60 * 1000}

\* getWeekRange and isDateInWeekRange on every reference instant.
InitWeek ==
    /\ retrievedQuestionsCol = {}
    /\ nextDocId = 1
    /\ clock = 0
    /\ functions = TRUE
    /\ CallersIdle
    /\ apiKey = TRUE
    /\ reply = <<>>
    /\ SummaryIdle
    /\ now \in RefInstants
    /\ tzOffset \in TzOffsets
    /\ WeekIdle
    /\ WeeklyIdle
    /\ BackfillIdle
    /\ CreateIdle

NextWeek ==
    \/ ApplyGetWeekRange
    \/ \E date \in Probes : ApplyIsDateInWeekRange(date)

SpecWeek == InitWeek /\ [][NextWeek]_vars

\* A SentRecord with a difficulty and a sentDate of its own.
WeekRecord(i, difficulty, sent) ==
    createRetrievedQuestion(
        [QuestionDoc(((i - 1) % NumQuestions) + 1)
            EXCEPT !.difficulty = difficulty],
        toISOString(sent))
    @@ [id |-> i]

\* Local times around the week of Sunday 2025-11-30: the last millisecond
\* of Saturday, the first of Sunday, the last of Thursday, the first of
\* Friday.
WeekSentTimes ==
    {Instant(28, MsPerDay - 1), Instant(29, 0), Instant(33, MsPerDay - 1),
     Instant(34, 0)}

\* The store whose i-th record has the difficulty and the local sentDate
\* choice[i].
WeekStore(choice) ==
    {WeekRecord(i, choice[i][1], FromLocal(choice[i][2])) :
        i \in 1..Len(choice)}

\* The weekly summary of every store of at most MaxRecords SentRecords,
\* opened on the Sunday, the Wednesday or the Saturday of that week at
\* noon, local time UTC+2.
InitWeekly ==
    /\ tzOffset = 2 * 60 * 60 * 1000
    /\ now \in {FromLocal(Instant(day, 12 * 60 * 60 * 1000)) :
                   day \in {29, 32, 35}}
    /\ \E n \in 0..MaxRecords :
          \E choice \in [1..n -> Difficulties \X WeekSentTimes] :
              retrievedQuestionsCol = WeekStore(choice)
    /\ nextDocId = Cardinality(retrievedQuestionsCol) + 1
    /\ clock = 0
    /\ functions = TRUE
    /\ CallersIdle
    /\ apiKey = TRUE
    /\ reply = <<>>
    /\ SummaryIdle
    /\ WeekIdle
    /\ WeeklyIdle
    /\ BackfillIdle
    /\ CreateIdle

NextWeekly ==
    \/ fetchWeekQuestions
    \/ \E ok \in BOOLEAN : FetchAfterGetDocs(ok)

SpecWeekly == InitWeekly /\ [][NextWeekly]_vars

MaxTags == 2

\* The topic tags of the fixtures.
TopicTags ==
    {[name |-> "Array", slug |-> "array"],
     [name |-> "Hash Table", slug |-> "hash-table"],
     [name |-> "Math", slug |-> "math"]}

\* The questions handed to createRetrievedQuestion: every difficulty, with
\* every list of at most MaxTags topic tags.
InputQuestions ==
    {[QuestionDoc(i) EXCEPT !.difficulty = d, !.topicTags = tags] :
        i \in Questions, d \in Difficulties,
        tags \in UNION {[1..n -> TopicTags] : n \in 0..MaxTags}}

\* createRetrievedQuestion on every input question at every reference
\* instant.
InitCreate ==
    /\ retrievedQuestionsCol = {}
    /\ nextDocId = 1
    /\ clock = 0
    /\ functions = TRUE
    /\ CallersIdle
    /\ apiKey = TRUE
    /\ reply = <<>>
    /\ SummaryIdle
    /\ now \in RefInstants
    /\ tzOffset \in TzOffsets
    /\ WeekIdle
    /\ WeeklyIdle
    /\ BackfillIdle
    /\ questionArg \in InputQuestions
    /\ created = NoRecord

NextCreate == ApplyCreateRetrievedQuestion

SpecCreate == InitCreate /\ [][NextCreate]_vars

\* The summary of a record that was filled earlier.
OldSummary ==
    [solution |-> <<"o", "l", "d">>,
     timeComplexity |-> <<"O", "(", "1", ")">>,
     spaceComplexity |-> <<"O", "(", "1", ")">>]

\* Local sentDates at the borders of the week of Sunday 2025-11-30: the
\* first millisecond of Sunday and the first of Friday.
BackfillSentTimes == {Instant(29, 0), Instant(34, 0)}

\* The store whose i-th record has a summary iff choice[i][1], and the
\* local sentDate choice[i][2].
BackfillStore(choice) ==
    {IF choice[i][1]
     THEN WeekRecord(i, "Easy", FromLocal(choice[i][2]))
              @@ [aiSummary |-> OldSummary]
     ELSE WeekRecord(i, "Easy", FromLocal(choice[i][2])) :
        i \in 1..Len(choice)}

\* backfillWeekSummaries, called on the Sunday, the Wednesday or the
\* Saturday of the week at noon (local time UTC+2), with and without the
\* credential, on every store of at most MaxRecords SentRecords with or
\* without a summary; a second request may arrive while the first is
\* served.
InitBackfill ==
    /\ tzOffset = 2 * 60 * 60 * 1000
    /\ now \in {FromLocal(Instant(day, 12 * 60 * 60 * 1000)) :
                   day \in {29, 32, 35}}
    /\ \E n \in 0..MaxRecords :
          \E choice \in [1..n -> BOOLEAN \X BackfillSentTimes] :
              retrievedQuestionsCol = BackfillStore(choice)
    /\ nextDocId = Cardinality(retrievedQuestionsCol) + 1
    /\ clock = 0
    /\ functions = TRUE
    /\ CallersIdle
    /\ apiKey \in BOOLEAN
    /\ reply = <<>>
    /\ SummaryIdle
    /\ WeekIdle
    /\ WeeklyIdle
    /\ BackfillIdle
    /\ CreateIdle

NextBackfill ==
    \/ \E c \in Invocations : backfillWeekSummaries(c)
    \/ \E c \in Invocations, ok \in BOOLEAN : BackfillGet(c, ok)
    \/ \E c \in Invocations, outcome \in Outcomes :
          BackfillGenerate(c, outcome)
    \/ \E c \in Invocations, ok \in BOOLEAN : BackfillUpdate(c, ok)

SpecBackfill == InitBackfill /\ [][NextBackfill]_vars

\* ===================================================================
\* Properties
\* ===================================================================
Done(p, o) == pc[p] = "done" /\ op[p] = o

\* C1: when the operations run one at a time and every store call succeeds,
\* the Sent-Record Store holds at most one SentRecord per questionId.
C1_AtMostOneRecord ==
    \A qq \in Questions :
        Cardinality(SentDocs(retrievedQuestionsCol, qq)) <= 1

\* A mark of a question that was already sent has completed and the question
\* still has its single record.
C1_Witness ==
    \E p \in Procs :
        /\ Done(p, "mark")
        /\ SentDocs(pre, argQ[p]) # {}
        /\ Cardinality(SentDocs(retrievedQuestionsCol, argQ[p])) = 1

\* C2: the insert of markQuestionAsSent is not conditional on the existence
\* check still being true: every insert step of a call that passed its
\* check adds a document, so two calls for one question that both passed
\* the check both insert.
C2_InsertAfterStaleCheck ==
    [][\A p \in Procs :
          (pc[p] = "mark_add" /\ pc'[p] = "done") =>
              /\ Cardinality(retrievedQuestionsCol') =
                     Cardinality(retrievedQuestionsCol) + 1
              /\ Cardinality(SentDocs(retrievedQuestionsCol', argQ[p])) =
                     Cardinality(SentDocs(retrievedQuestionsCol, argQ[p])) + 1
      ]_vars

\* Two concurrent marks of one question have both returned a new id and the
\* store holds two SentRecords for that question.
C2_Witness ==
    \E p1, p2 \in Procs :
        /\ p1 # p2
        /\ Done(p1, "mark") /\ Done(p2, "mark")
        /\ argQ[p1] = argQ[p2]
        /\ ret[p1] # NULL /\ ret[p2] # NULL /\ ret[p1] # ret[p2]
        /\ Cardinality(SentDocs(retrievedQuestionsCol, argQ[p1])) = 2

\* C3: a second markSent(q) right after a markSent(q) that returned an id
\* returns the same id and leaves exactly one SentRecord for q.
C3_DoubleMark ==
    \A p \in Procs :
        (Done(p, "mark") /\ Len(hist) = 1 /\ hist[1].q = argQ[p]) =>
            /\ ret[p] = hist[1].ret
            /\ Cardinality(SentDocs(retrievedQuestionsCol, argQ[p])) = 1

C3_Witness ==
    \E p \in Procs :
        /\ Done(p, "mark") /\ Len(hist) = 1 /\ hist[1].q = argQ[p]
        /\ ~hist[1].wasSent
        /\ ret[p] = hist[1].ret

\* C4: for a question not sent before, markSent(q) then unmarkSent(q.id)
\* returns true, and an isAlreadySent(q.id) after them reports not sent.
C4_MarkUnmarkRoundTrip ==
    \A p \in Procs :
        /\ (Done(p, "unsend") /\ Len(hist) = 1 /\ hist[1].q = argQ[p]
                /\ ~hist[1].wasSent)
             => ret[p] = TRUE
        /\ (Done(p, "isSent") /\ Len(hist) = 2 /\ hist[1].q = argQ[p]
                /\ ~hist[1].wasSent)
             => (hist[2].ret = TRUE /\ ret[p].isSent = FALSE)

C4_Witness ==
    \E p \in Procs :
        /\ Done(p, "isSent") /\ Len(hist) = 2 /\ hist[1].q = argQ[p]
        /\ ~hist[1].wasSent
        /\ hist[2].ret = TRUE
        /\ ret[p].isSent = FALSE

\* C5: whenever a question of the requested difficulty has no SentRecord,
\* selectUnsent returns a question of that difficulty that has no
\* SentRecord.
C5_SelectsUnsent ==
    \A p \in Procs :
        (Done(p, "select") /\ availableQuestions(pre, argD[p]) # {}) =>
            /\ ret[p] # NULL
            /\ QuestionDoc(ret[p]) \in questionsByDifficulty(argD[p])
            /\ SentDocs(pre, ret[p]) = {}
            /\ SentDocs(retrievedQuestionsCol, ret[p]) = {}

\* A selection has returned while one question of the difficulty was sent
\* and another one was not.
C5_Witness ==
    \E p \in Procs :
        /\ Done(p, "select")
        /\ availableQuestions(pre, argD[p]) # {}
        /\ availableQuestions(pre, argD[p]) # questionsByDifficulty(argD[p])
        /\ ret[p] # NULL

\* C6: with succeeding store reads selectUnsent returns null exactly when the
\* difficulty has no question; when all its questions are sent it returns
\* one of them.
C6_NullIffNoQuestion ==
    \A p \in Procs :
        Done(p, "select") =>
            /\ (ret[p] = NULL) <=> (questionsByDifficulty(argD[p]) = {})
            /\ ret[p] # NULL =>
                   QuestionDoc(ret[p]) \in questionsByDifficulty(argD[p])

\* A selection has returned a question while every question of the
\* difficulty was sent.
C6_Witness ==
    \E p \in Procs :
        /\ Done(p, "select")
        /\ questionsByDifficulty(argD[p]) # {}
        /\ availableQuestions(pre, argD[p]) = {}
        /\ ret[p] # NULL

\* C7: when the summary call gives nothing, markSent of a question that is
\* not sent yet still inserts the SentRecord, without an aiSummary field,
\* and returns the id of the new record.
C7_MarkSurvivesSummaryFailure ==
    \A p \in Procs :
        (Done(p, "mark") /\ aiFailed[p] /\ SentDocs(pre, argQ[p]) = {}) =>
            /\ ret[p] # NULL
            /\ \E r \in retrievedQuestionsCol \ pre :
                  /\ r.id = ret[p]
                  /\ r.questionId = argQ[p]
                  /\ "aiSummary" \notin DOMAIN r

\* A mark has returned after the callable failed on an initialised client.
C7_Witness ==
    \E p \in Procs :
        /\ Done(p, "mark") /\ aiFailed[p] /\ functions
        /\ SentDocs(pre, argQ[p]) = {}
        /\ ret[p] # NULL

\* C8: unmarkSent of a question without SentRecord returns false and leaves
\* the store as it was; with a SentRecord it deletes that record and
\* returns true.
C8_UnsendEffect ==
    \A p \in Procs :
        Done(p, "unsend") =>
            IF SentDocs(pre, argQ[p]) = {}
            THEN ret[p] = FALSE /\ retrievedQuestionsCol = pre
            ELSE /\ ret[p] = TRUE
                 /\ \E r \in SentDocs(pre, argQ[p]) :
                       retrievedQuestionsCol = pre \ {r}

\* An unsend has deleted the record of one question while another question
\* keeps its record.
C8_Witness ==
    \E p \in Procs :
        /\ Done(p, "unsend")
        /\ SentDocs(pre, argQ[p]) # {}
        /\ retrievedQuestionsCol # {}
        /\ ret[p] = TRUE

\* C9: no failure escapes a public operation, and a call in which a store
\* call failed returns null (selectUnsent, markSent), false (unmarkSent) or
\* isSent = false (isAlreadySent).
C9_FailureGivesNull ==
    \A p \in Procs :
        /\ ~escaped[p]
        /\ (pc[p] = "done" /\ storeFailed[p]) =>
               CASE op[p] = "select" -> ret[p] = NULL
                 [] op[p] = "mark" -> ret[p] = NULL
                 [] op[p] = "unsend" -> ret[p] = FALSE
                 [] op[p] = "isSent" -> ret[p].isSent = FALSE

\* C10: every user-triggered action of the App runs to completion before the
\* next one is started: at most one of handleGetRandomQuestion and
\* handleToggleSentStatus is in flight.
C10_OneHandlerInFlight ==
    Cardinality({p \in Procs : hpc[p] # "none"}) <= 1

\* C11: after every completed UI action of a single user, with a question
\* displayed, questionSent equals whether the store holds a SentRecord for
\* the displayed question.
C11_QuestionSentMatchesStore ==
    (NoHandler /\ randomQuestion # NULL) =>
        (questionSent <=>
            (SentDocs(retrievedQuestionsCol, randomQuestion) # {}))

\* C12: selectUnsent has no side effect: whatever its arguments and its
\* outcome (a question, null, or a failed store read), the Sent-Record
\* Store is after the call what it was before it. (The Question Store is
\* the fixed set questionsCol, which no action writes.)
C12_SelectHasNoSideEffect ==
    \A p \in Procs :
        Done(p, "select") => retrievedQuestionsCol = pre

\* A selection has failed on its store read while the store held records.
C12_Witness ==
    \E p \in Procs :
        /\ Done(p, "select")
        /\ storeFailed[p]
        /\ ret[p] = NULL
        /\ pre # {}
        /\ retrievedQuestionsCol = pre

\* The reply has a line with the solution label.
HasSolutionLine(ls) == \E i \in 1..Len(ls) : ls[i].kind = "solution"

\* The solution segment of a reply: what follows the first solution label,
\* up to the next line that begins with the time or the space label, or to
\* the end of the text, trimmed.
SolutionSegment(ls) ==
    LET a == SetMin({i \in 1..Len(ls) : ls[i].kind = "solution"})
        stops == {i \in (a + 1)..Len(ls) : ls[i].kind \in {"time", "space"}}
        b == IF stops = {} THEN Len(ls) ELSE SetMin(stops) - 1
        more == SubSeq(ls, a + 1, b)
    IN trim(ls[a].sep \o ls[a].body \o ls[a].tail
            \o (IF more = <<>> THEN <<>> ELSE <<"\n">> \o JoinLines(more)))

\* parseAIResponse of utils.ts gives the solution segment of every reply
\* whose segment is not blank.
ParseAIResponseGivesSegment ==
    (HasSolutionLine(reply) /\ SolutionSegment(reply) # <<>>
        /\ parsed # NoSummary)
      => parsed.solution = SolutionSegment(reply)

\* C13: in every parser of the AI reply, parseAIResponse and the parsing
\* inside getQuestionSummary, the solution is the text after the solution
\* label up to, not including, the next line that begins with the time or
\* the space label, or the end of the text; so for a reply with a solution
\* line and a space line but no time line the solution does not contain
\* the space line.
C13_SolutionStopsAtNextLabel ==
    (HasSolutionLine(reply) /\ SolutionSegment(reply) # <<>>) =>
        /\ parsed # NoSummary => parsed.solution = SolutionSegment(reply)
        /\ fresult.kind = "ok" =>
               fresult.summary.solution = SolutionSegment(reply)

\* The text has the solution label.
HasSolutionLabel(text) == \E i \in 1..Len(text) : text[i] = SolutionLabel

\* C14: parseAIResponse is total and never gives an empty solution for a
\* text that is not blank: with the solution label in the text the solution
\* is not empty, without it the solution is the trimmed text.
C14_SolutionNeverEmpty ==
    parsed # NoSummary =>
        /\ HasSolutionLabel(content) => parsed.solution # <<>>
        /\ ~HasSolutionLabel(content) => parsed.solution = trim(content)
        /\ trim(content) # <<>> => parsed.solution # <<>>

\* The reply is the solution label followed by a blank only, and the
\* solution is the trimmed text.
C14_Witness ==
    /\ parsed # NoSummary
    /\ content = <<SolutionLabel, " ">>
    /\ parsed.solution = <<SolutionLabel>>

\* The lines of a kind that carry a token O(...) after the label.
TokenLines(ls, kind) ==
    {i \in 1..Len(ls) : ls[i].kind = kind /\ ls[i].body # <<>>}

\* The complexity a reply states on its lines of a kind: the token of the
\* first such line that has one.
StatedComplexity(ls, kind) == ls[SetMin(TokenLines(ls, kind))].body

C16_SundayToThursday ==
    range # NoRange =>
        /\ getDay(range.start) = 0
        /\ Local(range.start).ms = 0
        /\ getDay(range.end) = 4
        /\ Local(range.end).day = Local(range.start).day + 4
        /\ Local(range.end).ms = ((23 * 60 + 59) * 60 + 59) * 1000 + 999

\* The range of a Saturday whose Sunday lies in the month before.
C16_Witness ==
    /\ range # NoRange
    /\ getDay(now) = 6
    /\ getMonth(range.start) # getMonth(now)
    /\ getDay(range.start) = 0

\* C17: getWeekRange never gives a window in the future: start <= reference;
\* the window contains the reference exactly when the reference falls on
\* Sunday to Thursday, and lies wholly before it on Friday and Saturday.
C17_NeverFutureWindow ==
    range # NoRange =>
        /\ NotAfter(range.start, now)
        /\ (getDay(now) <= 4) <=>
               (NotAfter(range.start, now) /\ NotAfter(now, range.end))
        /\ (getDay(now) >= 5) => Before(range.end, now)

\* The range of the first millisecond of a Friday lies before it.
C17_Witness ==
    /\ range # NoRange
    /\ getDay(now) = 5
    /\ Local(now).ms = 0
    /\ now = AddMs(range.end, 1)

\* C18: isDateInWeekRange is inclusive on both bounds: a date equal to
\* range.start or to range.end gives true, a date one millisecond before
\* start or one millisecond after end gives false.
C18_InclusiveBounds ==
    probe # NoDate =>
        /\ (probe = range.start \/ probe = range.end) => inRange
        /\ (probe = AddMs(range.start, -1) \/ probe = AddMs(range.end, 1))
               => ~inRange

\* The date one millisecond after the end has been found outside.
C18_Witness ==
    /\ probe # NoDate
    /\ probe = AddMs(range.end, 1)
    /\ getDay(probe) = 5
    /\ ~inRange

\* The SentRecords of the store whose sentDate lies in the displayed range.
InWeek ==
    {r \in retrievedQuestionsCol :
        /\ NotAfter(dateRange.start, parseDate(r.sentDate))
        /\ NotAfter(parseDate(r.sentDate), dateRange.end)}

\* The listings of a set of records: each record once, sentDate ascending.
Listings(recs) ==
    {s \in [1..Cardinality(recs) -> recs] :
        /\ \A i, j \in 1..Cardinality(recs) : i # j => s[i] # s[j]
        /\ \A i, j \in 1..Cardinality(recs) :
               i < j => NotAfter(parseDate(s[i].sentDate),
                                 parseDate(s[j].sentDate))}

\* The bullets are those of the records, each once, sentDate ascending.
Lists(bullets, recs) ==
    \E s \in Listings(recs) :
        bullets = [i \in 1..Cardinality(recs) |-> formatQuestion(s[i])]

\* C19: the weekly summary lists every SentRecord whose sentDate is in the
\* week range exactly once, under the section of its difficulty, sentDate
\* ascending within each section, and its total is the number of records
\* listed; when no record is in the range the message is the placeholder
\* "no questions".
C19_WeeklySummary ==
    (~isLoading /\ message # NoMessage) =>
        IF InWeek = {}
        THEN message = NoQuestionsMessage
        ELSE /\ message.kind = "summary"
             /\ Lists(message.easy, {r \in InWeek : r.difficulty = "Easy"})
             /\ Lists(message.medium,
                      {r \in InWeek : r.difficulty = "Medium"})
             /\ Lists(message.hard, {r \in InWeek : r.difficulty = "Hard"})
             /\ message.total = Len(message.easy) + Len(message.medium)
                                    + Len(message.hard)
             /\ message.total = Cardinality(InWeek)

\* A summary of a store with a record outside the week and two records of
\* one difficulty inside it, the later one first in the snapshot.
C19_Witness ==
    /\ ~isLoading
    /\ message.kind = "summary"
    /\ retrievedQuestionsCol # InWeek
    /\ \E r1, r2 \in InWeek :
          /\ r1.id < r2.id
          /\ r1.difficulty = r2.difficulty
          /\ Before(parseDate(r2.sentDate), parseDate(r1.sentDate))

\* C20: without the API credential getQuestionSummary fails with the error
\* "failed-precondition" and no request goes to the text-generation
\* endpoint.
C20_NoRequestWithoutCredential ==
    ~apiKey =>
        /\ requests = 0
        /\ fpc # "fetch"
        /\ fpc = "done" => fresult = HttpsError("failed-precondition")

\* The call without credential has failed.
C20_Witness ==
    /\ ~apiKey
    /\ fpc = "done"
    /\ fresult.kind = "error"
    /\ requests = 0

\* C21: with the credential set, every failure of getQuestionSummary (a
\* response that is not ok, a rejected fetch, a body that cannot be parsed)
\* reaches the caller as the error "internal", never as another code and
\* never as a raw exception.
C21_FailuresAreInternal ==
    (apiKey /\ fpc = "done" /\ response # "ok") =>
        fresult = HttpsError("internal")

\* A call with the credential whose fetch was rejected has failed.
C21_Witness ==
    /\ apiKey
    /\ fpc = "done"
    /\ response = "fetch_throws"
    /\ fresult.kind = "error"

\* C22: createRetrievedQuestion(q) gives a record with questionId = q.id,
\* the frontendQuestionId, title, titleSlug and difficulty of q, the topic
\* tags of q in the same order (none when q has none), isChosen = true,
\* sentDate = the current instant, and no aiSummary field.
C22_SnapshotOfQuestion ==
    created # NoRecord =>
        /\ created.questionId = questionArg.id
        /\ created.frontendQuestionId = questionArg.frontendQuestionId
        /\ created.title = questionArg.title
        /\ created.titleSlug = questionArg.titleSlug
        /\ created.difficulty = questionArg.difficulty
        /\ Len(created.topicTags) = Len(questionArg.topicTags)
        /\ \A i \in 1..Len(questionArg.topicTags) :
              created.topicTags[i] = questionArg.topicTags[i]
        /\ created.isChosen = TRUE
        /\ parseDate(created.sentDate) = now
        /\ "aiSummary" \notin DOMAIN created

\* A snapshot of a question with two different topic tags was built away
\* from UTC.
C22_Witness ==
    /\ created # NoRecord
    /\ Len(questionArg.topicTags) = 2
    /\ questionArg.topicTags[1] # questionArg.topicTags[2]
    /\ tzOffset # 0

\* C23: markSent inserts a SentRecord only when the store answered the
\* existence check with "no record": a mark whose existence-check query
\* failed writes nothing and returns null.
C23_InsertOnlyAfterAnsweredCheck ==
    [][\A p \in Procs :
          (op[p] = "mark" /\ pc[p] = "mark_add" /\ storeFailed[p]) =>
              /\ retrievedQuestionsCol' = retrievedQuestionsCol
              /\ pc'[p] = "done" => ret'[p] = NULL]_vars

\* The SentRecords of one difficulty.
RecordsOf(col, d) == {r \in col : r.difficulty = d}

\* The questions of difficulty d without a SentRecord in col.
Unsent(col, d) ==
    {qu \in questionsByDifficulty(d) : SentDocs(col, qu.id) = {}}

\* C24: with the get-question actions run one at a time and no failing
\* store call, no difficulty has more SentRecords than questions: the
\* action on an exhausted pool selects a sent question again and adds no
\* record, so "total - sent" is never negative.
C24_SentWithinTotal ==
    \A d \in Difficulties :
        Cardinality(RecordsOf(retrievedQuestionsCol, d))
            <= Cardinality(questionsByDifficulty(d))

\* A get-question action on an exhausted pool has re-selected a sent
\* question and its auto-mark has returned without a new record.
C24_Witness ==
    \E p \in Procs :
        /\ hpc[p] = "get_mark" /\ pc[p] = "done"
        /\ questionsByDifficulty(selectedDifficulty) # {}
        /\ Unsent(pre, selectedDifficulty) = {}
        /\ ret[p] # NULL
        /\ retrievedQuestionsCol = pre

\* C25: with the actions run one at a time and no failing store call, a
\* get-question action for difficulty d started while a question of d is
\* unsent selects a question of d that was unsent and adds exactly one
\* SentRecord, for that question, changing no other record; the unsent
\* pool of d shrinks by one, so N such actions on N unsent questions leave
\* all N sent.
C25_OneRecordPerGetQuestion ==
    \A p \in Procs :
        Unsent(pre, selectedDifficulty) # {} =>
            /\ (hpc[p] = "get_select" /\ pc[p] = "done") =>
                   /\ ret[p] # NULL
                   /\ QuestionDoc(ret[p]) \in Unsent(pre, selectedDifficulty)
            /\ (hpc[p] = "get_mark" /\ pc[p] = "done") =>
                   /\ QuestionDoc(argQ[p]) \in Unsent(pre, selectedDifficulty)
                   /\ \E r \in retrievedQuestionsCol \ pre :
                         /\ retrievedQuestionsCol = pre \cup {r}
                         /\ r.questionId = argQ[p]
                         /\ r.id = ret[p]
                   /\ Cardinality(Unsent(retrievedQuestionsCol,
                                         selectedDifficulty))
                         = Cardinality(Unsent(pre, selectedDifficulty)) - 1

\* The second of two get-question actions on the two unsent Easy questions
\* has marked its question: both are sent.
C25_Witness ==
    \E p \in Procs :
        /\ hpc[p] = "get_mark" /\ pc[p] = "done"
        /\ Cardinality(questionsByDifficulty(selectedDifficulty)) = 2
        /\ Cardinality(Unsent(pre, selectedDifficulty)) = 1
        /\ Unsent(retrievedQuestionsCol, selectedDifficulty) = {}
        /\ Cardinality(retrievedQuestionsCol) = 2

\* C26: a call of unmarkSent deletes at most one record and none of another
\* question; when the question has k >= 2 SentRecords (after two racing
\* marks), the call deletes one of them and returns true, k - 1 records
\* stay, and isAlreadySent still reports the question as sent.
C26_UnsendDeletesOneRecord ==
    [][\A p \in Procs :
          LET k == Cardinality(SentDocs(retrievedQuestionsCol, argQ[p]))
              deleted == retrievedQuestionsCol \ retrievedQuestionsCol'
          IN /\ (pc[p] = "un_chk" /\ pc'[p] # "un_chk") =>
                    retrievedQuestionsCol' = retrievedQuestionsCol
             /\ (pc[p] = "un_del" /\ pc'[p] = "done") =>
                    /\ retrievedQuestionsCol' \subseteq retrievedQuestionsCol
                    /\ Cardinality(deleted) <= 1
                    /\ \A r \in deleted : r.questionId = argQ[p]
                    /\ (k >= 2 /\ \E r \in retrievedQuestionsCol :
                                     r.id = retrievedDocId[p]) =>
                           /\ ret'[p] = TRUE
                           /\ Cardinality(SentDocs(retrievedQuestionsCol',
                                                   argQ[p])) = k - 1
                           /\ \A a \in isQuestionAlreadySent(
                                         retrievedQuestionsCol', argQ[p],
                                         TRUE) : a.isSent]_vars

\* Two records were made for one question, an unsend of that question has
\* returned true, and one record of the question is left.
C26_Witness ==
    \E p \in Procs :
        /\ Done(p, "unsend")
        /\ ret[p] = TRUE
        /\ nextDocId = 3
        /\ Cardinality(SentDocs(retrievedQuestionsCol, argQ[p])) = 1
        /\ \A p2 \in Procs \ {p} : pc[p2] = "idle"

\* The steps of markQuestionAsSent in the order of the source: existence
\* check, summary call, insert.
MarkOrder ==
    {<<"idle", "mark_chk">>, <<"mark_chk", "mark_ai">>,
     <<"mark_chk", "done">>, <<"mark_ai", "mark_add">>,
     <<"mark_add", "done">>}

\* C27: markSent on a question that already has a SentRecord makes no
\* summary call and no store write; the existence check comes before the
\* summary call and the summary call before the insert.
C27_NoWorkWhenAlreadySent ==
    [][\A p \in Procs :
          op'[p] = "mark" =>
              /\ pc'[p] # pc[p] => <<pc[p], pc'[p]>> \in MarkOrder
              /\ SentDocs(pre', argQ'[p]) # {} =>
                     /\ pc'[p] \notin {"mark_ai", "mark_add"}
                     /\ retrievedQuestionsCol' = pre']_vars

\* The documents invocation c of backfillWeekSummaries fetched.
FetchedDocs(c) == {snapshot[c][i] : i \in 1..Len(snapshot[c])}

\* The record was sent on one of the five days from the Sunday of the
\* week of now to its Thursday (local calendar days).
SentThisWeek(r) ==
    LET sundayDay == Local(now).day - getDay(now)
    IN Local(parseDate(r.sentDate)).day \in sundayDay..(sundayDay + 4)

\* The records of the week that had no summary when invocation c fetched
\* them.
ToFill(c) ==
    {r \in FetchedDocs(c) : SentThisWeek(r) /\ "aiSummary" \notin DOMAIN r}

\* A failure on one record does not end the loop of an invocation, and
\* when it returns, updated + errors is the number of fetched records of
\* the range that had no aiSummary.
BackfillCounts ==
    \A c \in Invocations :
        /\ (bpc[c] \in {"ai", "update"} \/ bresult[c].kind = "ok") =>
              updated[c] + errors[c] =
                  Cardinality({i \in 1..(docIdx[c] - 1) :
                                  snapshot[c][i] \in ToFill(c)})
        /\ bresult[c].kind = "ok" =>
              /\ bresult[c].updated + bresult[c].errors
                    = Cardinality(ToFill(c))
              /\ bresult[c].updated = updated[c]
              /\ bresult[c].errors = errors[c]
        /\ bresult[c].kind = "error" => updated[c] = 0 /\ errors[c] = 0

\* No step removes a record or changes one that has an aiSummary or was
\* sent outside the week.
BackfillKeepsSummaries ==
    /\ {r.id : r \in retrievedQuestionsCol'}
          = {r.id : r \in retrievedQuestionsCol}
    /\ \A r \in retrievedQuestionsCol :
          ("aiSummary" \in DOMAIN r \/ ~SentThisWeek(r)) =>
              r \in retrievedQuestionsCol'

\* A step changes at most the record an invocation is about to update:
\* one of the week that had no aiSummary in its snapshot, which gets the
\* new summary; a record that had a summary in the snapshot, or was sent
\* outside the week, is not that record.
BackfillKeepsFetchedSummaries ==
    /\ {r.id : r \in retrievedQuestionsCol'}
          = {r.id : r \in retrievedQuestionsCol}
    /\ \A r \in retrievedQuestionsCol \ retrievedQuestionsCol' :
          \E c \in Invocations :
              /\ bpc[c] = "update" /\ updated'[c] = updated[c] + 1
              /\ snapshot[c][docIdx[c]] \in ToFill(c)
              /\ r.id = snapshot[c][docIdx[c]].id
              /\ SentThisWeek(r)
              /\ ([aiSummary |-> newSummary[c]] @@ r)
                    \in retrievedQuestionsCol'

\* C28: backfillWeekSummaries never overwrites an aiSummary and never
\* changes a record sent outside the current Sunday-Thursday range; a
\* failure on one record does not end the loop; and when it returns,
\* updated + errors is the number of fetched records of the range that
\* had no aiSummary.
C28_BackfillFillsOnlyMissing ==
    []BackfillCounts /\ [][BackfillKeepsSummaries]_vars

\* C28, amended: backfillWeekSummaries never overwrites an aiSummary that
\* the record had in the snapshot the invocation fetched, and never changes
\* a record sent outside the current Sunday-Thursday range; a failure on
\* one record does not end the loop; and when it returns, updated + errors
\* is the number of fetched records of the range that had no aiSummary.
C28_BackfillFillsMissingInSnapshot ==
    []BackfillCounts /\ [][BackfillKeepsFetchedSummaries]_vars

\* An invocation has returned after one failure and one update, and a
\* record it had fetched with a summary or from outside the week is
\* stored as it was.
C28_Witness ==
    \E c \in Invocations :
        /\ bresult[c].kind = "ok"
        /\ bresult[c].updated = 1 /\ bresult[c].errors = 1
        /\ \E r \in FetchedDocs(c) \ ToFill(c) :
              r \in retrievedQuestionsCol

====
